---- MODULE Spec2Model ----
(***************************************************************************)
(* Model of the wasmcloud key-value capability provider backed by          *)
(* Couchbase (src/src/main.rs, src/src/config.rs).                         *)
(*                                                                         *)
(* The provider keeps one registry, actors : RwLock<HashMap<String,        *)
(* Collection>>.  The host runs the handlers (put_link, delete_link,       *)
(* shutdown and the KeyValue operations) concurrently as tasks; a handler  *)
(* is modelled step by step, one step per point where it can be suspended  *)
(* (the await of the lock, the blocking store call).                       *)
(***************************************************************************)
EXTENDS Integers, Sequences, FiniteSets, TLC

(* ---------------------------------------------------------------------- *)
(* Bounds of the model                                                     *)
(* ---------------------------------------------------------------------- *)
\* number of events (handler invocations) the host delivers in one behaviour
MaxEvents == 3

\* slots for the concurrently running handler tasks
Tasks == {1, 2, 3}

\* actor identities (ld.actor_id, ctx.actor)
Actors == {"a1", "a2"}

\* keys of the backing store
Keys == {"k1", "k2"}

\* buckets a link can resolve to
Buckets == {"default", "b2"}

\* store failures other than DocumentNotFound
StoreErrors == {"Timeout"}

(* ---------------------------------------------------------------------- *)
(* Option<T> is a sequence of length 0 (None) or 1 (Some)                  *)
(* ---------------------------------------------------------------------- *)
None == <<>>
Some(x) == <<x>>
IsSome(o) == Len(o) = 1
Unwrap(o) == o[1]

(* ---------------------------------------------------------------------- *)
(* RpcResult values                                                        *)
(* ---------------------------------------------------------------------- *)
NoResult == [tag |-> "None", kind |-> "", val |-> <<>>]
OkBool(b) == [tag |-> "Ok", kind |-> "bool", val |-> <<IF b THEN "true" ELSE "false">>]
OkUnit == [tag |-> "Ok", kind |-> "unit", val |-> <<>>]
\* GetResponse { exists, value }
OkGetResponse(exists, value) ==
    [tag |-> "Ok", kind |-> "GetResponse",
     val |-> <<IF exists THEN "true" ELSE "false", value>>]
\* String::default()
DefaultValue == ""
RpcErr(kind, msg) == [tag |-> "Err", kind |-> kind, val |-> msg]
\* a panic unwinding out of the handler (unwrap on an Err)
Panicked(msg) == [tag |-> "Panic", kind |-> "unwrap", val |-> msg]

NotImplemented == RpcErr("NotImplemented", <<>>)
\* RpcError::InvalidParameter(format!("actor not linked:{}", actor_id))
NotLinked(actor) == RpcErr("InvalidParameter", <<"actor not linked:", actor>>)
NoActorInRequest == RpcErr("InvalidParameter", <<"no actor in request">>)

\* fn to_rpc_err(e: CouchbaseError) -> RpcError
to_rpc_err(e) == RpcErr("Other", <<"Couchbase error: ", e>>)

\* fn actor_id(ctx: &Context) -> Result<&String, RpcError>
actor_id(ctx) ==
    IF IsSome(ctx) THEN [ok |-> TRUE, id |-> Unwrap(ctx), err |-> NoResult]
    ELSE [ok |-> FALSE, id |-> "", err |-> NoActorInRequest]

(* ---------------------------------------------------------------------- *)
(* Configuration (config.rs)                                               *)
(* ---------------------------------------------------------------------- *)
COUCHBASE_URL_KEY == "URL"
COUCHBASE_BUCKET_KEY == "bucket"
COUCHBASE_COLLECTION_KEY == "collection"
COUCHBASE_USERNAME_KEY == "username"
COUCHBASE_PASSWORD_KEY == "password"

DEFAULT_CONNECT_URL == "couchbase://0.0.0.0"
DEFAULT_BUCKET == "default"
DEFAULT_COLLECTION == "_default"
DEFAULT_USERNAME == "Administrator"
DEFAULT_PASSWORD == "password"

ConfigFields == {"url", "bucket", "collection", "username", "password"}

\* Config::new()
ConfigNew ==
    [url |-> DEFAULT_CONNECT_URL, bucket |-> DEFAULT_BUCKET,
     collection |-> DEFAULT_COLLECTION, username |-> DEFAULT_USERNAME,
     password |-> DEFAULT_PASSWORD]

\* A JSON text: wf says whether it parses; obj gives, for each Config field,
\* the member of the JSON object (None when the object lacks it).
Json(wf, obj) == [wf |-> wf, obj |-> obj]
JsonObj(url, bucket, collection, username, password) ==
    [url |-> url, bucket |-> bucket, collection |-> collection,
     username |-> username, password |-> password]
EmptyObj == JsonObj(None, None, None, None, None)
\* A config_b64 value: b64 says whether it is valid base64; json is what it
\* decodes to.
Blob(b64, json) == [b64 |-> b64, json |-> json]

\* serde_json::from_slice / from_str into Config (#[derive(Deserialize)],
\* no field defaults): fails on malformed JSON and on a missing field.
from_json(j) ==
    IF ~j.wf THEN [ok |-> FALSE, config |-> ConfigNew,
                   err |-> RpcErr("ProviderInit", <<"invalid json config: ", "syntax">>)]
    ELSE IF \E f \in ConfigFields : ~IsSome(j.obj[f])
         THEN [ok |-> FALSE, config |-> ConfigNew,
               err |-> RpcErr("ProviderInit", <<"invalid json config: ", "missing field">>)]
    ELSE [ok |-> TRUE,
          config |-> [f \in ConfigFields |-> Unwrap(j.obj[f])],
          err |-> NoResult]

\* base64::decode(cj).map_err(..)
base64_decode(b) ==
    IF b.b64 THEN [ok |-> TRUE, json |-> b.json, err |-> NoResult]
    ELSE [ok |-> FALSE, json |-> b.json,
          err |-> RpcErr("ProviderInit", <<"invalid config_base64 encoding">>)]

\* ld.values: each recognised key is None or Some(value)
LinkValues(b64, json, url, bucket, collection, username, password) ==
    [config_b64 |-> b64, config_json |-> json, URL |-> url, bucket |-> bucket,
     collection |-> collection, username |-> username, password |-> password]
NoValues == LinkValues(None, None, None, None, None, None, None)

\* the if-let patches of load_config, lines 62-76
PatchExplicit(config, values) ==
    LET patch(key, current) == IF IsSome(values[key]) THEN Unwrap(values[key]) ELSE current
    IN  [url |-> patch(COUCHBASE_URL_KEY, config.url),
         collection |-> patch(COUCHBASE_COLLECTION_KEY, config.collection),
         bucket |-> patch(COUCHBASE_BUCKET_KEY, config.bucket),
         username |-> patch(COUCHBASE_USERNAME_KEY, config.username),
         password |-> patch(COUCHBASE_PASSWORD_KEY, config.password)]

\* mutant: config_json is read first and config_b64 replaces it
load_config_B64OverJson(values) ==
    LET c0 == ConfigNew
        r1 == IF IsSome(values.config_json) THEN from_json(Unwrap(values.config_json))
              ELSE [ok |-> TRUE, config |-> c0, err |-> NoResult]
        d == IF IsSome(values.config_b64) THEN base64_decode(Unwrap(values.config_b64))
             ELSE [ok |-> TRUE, json |-> Json(TRUE, EmptyObj), err |-> NoResult]
        r2 == IF IsSome(values.config_b64) /\ d.ok THEN from_json(d.json) ELSE r1
    IN  IF ~r1.ok THEN [ok |-> FALSE, config |-> c0, err |-> r1.err]
        ELSE IF ~d.ok THEN [ok |-> FALSE, config |-> c0, err |-> d.err]
        ELSE IF ~r2.ok THEN [ok |-> FALSE, config |-> c0, err |-> r2.err]
        ELSE [ok |-> TRUE, config |-> PatchExplicit(r2.config, values), err |-> NoResult]
\* pub(crate) fn load_config(ld: &LinkDefinition) -> Result<Config, RpcError>
load_config(values) ==
    LET c0 == ConfigNew
        d == IF IsSome(values.config_b64) THEN base64_decode(Unwrap(values.config_b64))
             ELSE [ok |-> TRUE, json |-> Json(TRUE, EmptyObj), err |-> NoResult]
        r1 == IF IsSome(values.config_b64) /\ d.ok THEN from_json(d.json)
              ELSE [ok |-> TRUE, config |-> c0, err |-> NoResult]
        r2 == IF IsSome(values.config_json) THEN from_json(Unwrap(values.config_json))
              ELSE r1
    IN  IF ~d.ok THEN [ok |-> FALSE, config |-> c0, err |-> d.err]
        ELSE IF ~r1.ok THEN [ok |-> FALSE, config |-> c0, err |-> r1.err]
        ELSE IF ~r2.ok THEN [ok |-> FALSE, config |-> c0, err |-> r2.err]
        ELSE [ok |-> TRUE, config |-> PatchExplicit(r2.config, values), err |-> NoResult]

\* A Collection handle: id names the connection object, bucket the bucket
\* whose default collection it addresses.
Collection(id, bucket) == [id |-> id, bucket |-> bucket]
NoCollection == Collection(0, "")

\* mutant: one connection object is shared by every link
create_collection_conection_SharedHandle(config, id) ==
    [ok |-> TRUE, collection |-> Collection(1, config.bucket), err |-> NoResult]

\* mutant: the connect fails for a bucket other than the default one
create_collection_conection_Fallible(config, id) ==
    IF config.bucket = DEFAULT_BUCKET
    THEN [ok |-> TRUE, collection |-> Collection(id, config.bucket), err |-> NoResult]
    ELSE [ok |-> FALSE, collection |-> NoCollection,
          err |-> RpcErr("ProviderInit", <<"connect failed">>)]

\* pub(crate) async fn create_collection_conection(config) -> Result<Collection, RpcError>
\* Cluster::connect, cluster.bucket and bucket.default_collection return no
\* Result; the function ends in Ok(collection).
create_collection_conection(config, id) ==
    [ok |-> TRUE, collection |-> Collection(id, config.bucket), err |-> NoResult]

(* ---------------------------------------------------------------------- *)
(* The backing store (couchbase driver, an external collaborator)          *)
(* ---------------------------------------------------------------------- *)
\* A stored document is JSON text: a JSON string, or some other JSON value.
StrDoc(s) == [json |-> "string", text |-> s]
ObjDoc == [json |-> "object", text |-> "{}"]
Absent == [json |-> "absent", text |-> ""]

\* GetResult::content::<String>(): deserialises the document as a String
content(doc) ==
    IF doc.json = "string" THEN [ok |-> TRUE, value |-> doc.text, err |-> ""]
    ELSE [ok |-> FALSE, value |-> "", err |-> "DecodingFailure"]

StoreOk(doc, exists) == [ok |-> TRUE, doc |-> doc, exists |-> exists, err |-> ""]
StoreErr(e) == [ok |-> FALSE, doc |-> Absent, exists |-> FALSE, err |-> e]
OtherErrors == {StoreErr(e) : e \in StoreErrors}

\* collection.get(key, GetOptions::default()): the outcomes the store can give
collection_get(st, c, key) ==
    (IF st[c.bucket][key] = Absent THEN {StoreErr("DocumentNotFound")}
     ELSE {StoreOk(st[c.bucket][key], TRUE)}) \cup OtherErrors

\* collection.exists(key, ExistsOptions::default())
collection_exists(st, c, key) ==
    {StoreOk(Absent, st[c.bucket][key] # Absent)} \cup OtherErrors

\* collection.remove(key, RemoveOptions::default())
collection_remove(st, c, key) ==
    (IF st[c.bucket][key] = Absent THEN {StoreErr("DocumentNotFound")}
     ELSE {StoreOk(Absent, TRUE)}) \cup OtherErrors

\* the store after a remove that succeeded
Removed(st, c, key) == [st EXCEPT ![c.bucket][key] = Absent]

\* what the store can answer to an issued call [prim, key, id] on handle c
StoreOutcomes(st, c, call) ==
    IF call.prim = "get" THEN collection_get(st, c, call.key)
    ELSE IF call.prim = "exists" THEN collection_exists(st, c, call.key)
    ELSE collection_remove(st, c, call.key)

\* the store once the call has been answered with r
StoreAfter(st, c, call, r) ==
    IF call.prim = "remove" /\ r.ok THEN Removed(st, c, call.key) ELSE st

\* contents of the store when the provider starts
InitStores ==
    { [b \in Buckets |->
         IF b = "default" THEN [k \in Keys |-> IF k = "k1" THEN StrDoc("v1") ELSE d]
         ELSE [k \in Keys |-> IF k = "k1" THEN Absent ELSE StrDoc("v2")]]
      : d \in {ObjDoc} }

(* ---------------------------------------------------------------------- *)
(* Operations of the KeyValue interface                                    *)
(* ---------------------------------------------------------------------- *)
StoreOps == {"get", "contains", "del"}
UnsupportedOps ==
    {"increment", "list_add", "list_clear", "list_del", "list_range", "set",
     "set_add", "set_del", "set_clear", "set_intersection", "set_query",
     "set_union"}
LifecycleOps == {"put_link", "delete_link", "shutdown"}

\* the put_link events the host sends: <<ld.actor_id, ld.values>>.  a1 links
\* with the defaults, a2 with an explicit bucket; each also sends a link
\* definition whose configuration does not load.
LinkDefs ==
    { <<"a1", NoValues>>,
      <<"a2", LinkValues(None, None, None, Some("b2"), None, None, None)>>,
      <<"a1", LinkValues(Some(Blob(FALSE, Json(FALSE, EmptyObj))), None, None, None, None,
                         None, None)>>,
      <<"a2", LinkValues(None, Some(Json(FALSE, EmptyObj)), None, None, None, None, None)>> }

\* ctx.actor of the requests
Contexts == {None} \cup {Some(a) : a \in Actors}

\* ctx.actor of the requests for unsupported operations
UnsupportedCallers == {None, Some("a1")}

VARIABLES
    actors,      \* the registry: a set of <<actor id, Collection>> entries
    readers,     \* tasks holding a read guard of the RwLock
    writers,     \* tasks holding the write guard
    queue,       \* tasks waiting for the RwLock, in arrival order
    store,       \* bucket -> key -> document
    nextId,      \* id of the next Collection to be created
    dropped,     \* ids of the Collections that have been dropped
    pc,          \* task -> "idle" | "write" | "read" | "call"
    op,          \* task -> the handler it runs
    ctx,         \* task -> Option of the actor of the event
    arg,         \* task -> the key of the request
    values,      \* task -> ld.values of its put_link
    collection,  \* task -> the Collection it created or resolved
    calls,       \* task -> the store calls the handler has issued
    last,        \* what the step just taken returned to the host, if it returned
    started,     \* number of events delivered so far
    active,      \* history: identities whose link is established
    everLinked,  \* history: identities some put_link has registered
    epoch        \* history: "running" | "shutdown" | "relinking"

vars == <<actors, readers, writers, queue, store, nextId, dropped, pc, op, ctx,
          arg, values, collection, calls, last, started, active, everLinked, epoch>>

regVars == <<actors, dropped, active, everLinked>>
lockVars == <<readers, writers, queue>>

(* ---------------------------------------------------------------------- *)
(* HashMap<String, Collection>                                             *)
(* ---------------------------------------------------------------------- *)
MapKeys(m) == {e[1] : e \in m}
MapValues(m) == {e[2] : e \in m}
MapAt(m, k) == {e \in m : e[1] = k}
\* mutant: the lookup ignores the key and returns whatever entry it finds
MapGet_AnyEntry(m, k) == IF m = {} THEN None ELSE Some((CHOOSE e \in m : TRUE)[2])
\* HashMap::get
MapGet(m, k) == IF MapAt(m, k) = {} THEN None ELSE Some((CHOOSE e \in MapAt(m, k) : TRUE)[2])
\* mutant: the old entry of k stays beside the new one
MapInsert_KeepOld(m, k, v) == m \cup {<<k, v>>}
\* HashMap::insert: the entry of k is replaced
MapInsert(m, k, v) == (m \ MapAt(m, k)) \cup {<<k, v>>}
\* mutant: the removal of an absent key clears the map
MapRemove_ClearOnMiss(m, k) == IF MapAt(m, k) = {} THEN {} ELSE m \ MapAt(m, k)
\* mutant: nothing is removed
MapRemove_Nothing(m, k) == m
\* HashMap::remove
MapRemove(m, k) == m \ MapAt(m, k)
\* mutant: the drain stops after the first entry
MapDrain_FirstOnly(m) == IF m = {} THEN {} ELSE m \ {CHOOSE e \in m : TRUE}
\* HashMap::drain: everything leaves the map
MapDrain(m) == {}

(* ---------------------------------------------------------------------- *)
(* tokio::sync::RwLock: fair, waiters are served in arrival order          *)
(* ---------------------------------------------------------------------- *)
IsWriter(t) == op[t] \in LifecycleOps

\* mutant: a read guard is given while the write guard is held
ReadFree_IgnoreWriter(r, w, q) == q = <<>>
\* mutant: the write guard is given while read guards are held
WriteFree_IgnoreReaders(r, w, q) == w = {} /\ q = <<>>
ReadFree(r, w, q) == w = {} /\ q = <<>>
WriteFree(r, w, q) == w = {} /\ r = {} /\ q = <<>>

\* mutant: a released guard wakes no waiter
Grant_NoWake(r, w, q) == [r |-> r, w |-> w, q |-> q]
\* the waiters at the head of the queue that the lock can now admit
RECURSIVE Grant(_, _, _)
Grant(r, w, q) ==
    IF q = <<>> THEN [r |-> r, w |-> w, q |-> q]
    ELSE IF IsWriter(Head(q))
         THEN IF r = {} /\ w = {} THEN Grant(r, {Head(q)}, Tail(q))
              ELSE [r |-> r, w |-> w, q |-> q]
    ELSE IF w = {} THEN Grant(r \cup {Head(q)}, w, Tail(q))
         ELSE [r |-> r, w |-> w, q |-> q]

\* self.actors.read().await, up to the point where the task is suspended
AcquireRead(t) ==
    IF ReadFree(readers, writers, queue)
    THEN /\ readers' = readers \cup {t}
         /\ UNCHANGED <<writers, queue>>
    ELSE /\ queue' = Append(queue, t)
         /\ UNCHANGED <<readers, writers>>

\* self.actors.write().await, up to the point where the task is suspended
AcquireWrite(t) ==
    IF WriteFree(readers, writers, queue)
    THEN /\ writers' = writers \cup {t}
         /\ UNCHANGED <<readers, queue>>
    ELSE /\ queue' = Append(queue, t)
         /\ UNCHANGED <<readers, writers>>

\* the guard of task t is dropped; waiters are admitted
Release(t) ==
    LET g == Grant(readers \ {t}, writers \ {t}, queue)
    IN  /\ readers' = g.r
        /\ writers' = g.w
        /\ queue' = g.q

(* ---------------------------------------------------------------------- *)
(* Tasks                                                                   *)
(* ---------------------------------------------------------------------- *)
\* the host runs a new event in a free task slot (slots are interchangeable:
\* the lowest free one is taken)
Free(t) == pc[t] = "idle" /\ \A u \in Tasks : pc[u] = "idle" => t <= u

\* a call to the backing store: the primitive, its key, the handle used
StoreCall(prim, key, c) == [prim |-> prim, key |-> key, id |-> c.id]

\* the record of a handler that has returned
Returned(o, c, k, v, coll, cs, r) ==
    [op |-> o, ctx |-> c, arg |-> k, values |-> v, collection |-> coll,
     calls |-> cs, result |-> r]

\* the step did not return from a handler
NoReturn == Returned("none", None, "", NoValues, NoCollection, <<>>, NoResult)

\* task t starts handler o
Begin(t, o, c, k, v) ==
    /\ last' = NoReturn
    /\ started < MaxEvents
    /\ started' = started + 1
    /\ op' = [op EXCEPT ![t] = o]
    /\ ctx' = [ctx EXCEPT ![t] = c]
    /\ arg' = [arg EXCEPT ![t] = k]
    /\ values' = [values EXCEPT ![t] = v]

\* task t returns r and becomes idle
Finish(t, r, cs) ==
    /\ last' = Returned(op[t], ctx[t], arg[t], values[t], collection[t], cs, r)
    /\ pc' = [pc EXCEPT ![t] = "idle"]
    /\ op' = [op EXCEPT ![t] = "none"]
    /\ ctx' = [ctx EXCEPT ![t] = None]
    /\ arg' = [arg EXCEPT ![t] = ""]
    /\ values' = [values EXCEPT ![t] = NoValues]
    /\ collection' = [collection EXCEPT ![t] = NoCollection]
    /\ calls' = [calls EXCEPT ![t] = <<>>]
    /\ UNCHANGED started

\* a handler that returns in the step that starts it
Immediate(t, o, c, k, v, r) ==
    /\ started < MaxEvents
    /\ started' = started + 1
    /\ last' = Returned(o, c, k, v, NoCollection, <<>>, r)
    /\ UNCHANGED <<pc, op, ctx, arg, values, collection, calls>>

Init ==
    /\ actors = {}
    /\ readers = {}
    /\ writers = {}
    /\ queue = <<>>
    /\ store \in InitStores
    /\ nextId = 1
    /\ dropped = {}
    /\ pc = [t \in Tasks |-> "idle"]
    /\ op = [t \in Tasks |-> "none"]
    /\ ctx = [t \in Tasks |-> None]
    /\ arg = [t \in Tasks |-> ""]
    /\ values = [t \in Tasks |-> NoValues]
    /\ collection = [t \in Tasks |-> NoCollection]
    /\ calls = [t \in Tasks |-> <<>>]
    /\ started = 0
    /\ last = NoReturn
    /\ active = {}
    /\ everLinked = {}
    /\ epoch = "running"

(* ---------------------------------------------------------------------- *)
(* ProviderHandler: put_link, delete_link, shutdown                        *)
(* ---------------------------------------------------------------------- *)
\* the Collections dropped when entries leave the registry
DropAll(entries) == dropped \cup {e[2].id : e \in entries}

\* mutant: a put_link whose configuration does not load evicts the entry the
\* identity already has
put_link_EvictOnFailure(t, a, v) ==
    /\ Free(t)
    /\ LET cfg == load_config(v)
           conn == create_collection_conection(cfg.config, nextId)
       IN  IF ~cfg.ok
           THEN /\ Immediate(t, "put_link", Some(a), "", v, cfg.err)
                /\ actors' = MapRemove(actors, a)
                /\ dropped' = DropAll(actors \ actors')
                /\ UNCHANGED <<nextId, lockVars, epoch, active, everLinked>>
           ELSE /\ nextId' = nextId + 1
                /\ Begin(t, "put_link", Some(a), "", v)
                /\ collection' = [collection EXCEPT ![t] = conn.collection]
                /\ pc' = [pc EXCEPT ![t] = "write"]
                /\ AcquireWrite(t)
                /\ epoch' = IF epoch = "shutdown" THEN "relinking" ELSE epoch
                /\ UNCHANGED <<calls, regVars>>
    /\ UNCHANGED store

\* put_link, lines 56-59: configuration, connect, request of the write guard
put_link(t, a, v) ==
    /\ Free(t)
    /\ LET cfg == load_config(v)
           conn == create_collection_conection(cfg.config, nextId)
       IN  IF ~cfg.ok
           THEN /\ Immediate(t, "put_link", Some(a), "", v, cfg.err)
                /\ UNCHANGED <<nextId, lockVars, epoch>>
           ELSE IF ~conn.ok
           THEN /\ Immediate(t, "put_link", Some(a), "", v, Panicked(conn.err.val))
                /\ UNCHANGED <<nextId, lockVars, epoch>>
           ELSE /\ nextId' = nextId + 1
                /\ Begin(t, "put_link", Some(a), "", v)
                /\ collection' = [collection EXCEPT ![t] = conn.collection]
                /\ pc' = [pc EXCEPT ![t] = "write"]
                /\ AcquireWrite(t)
                /\ epoch' = IF epoch = "shutdown" THEN "relinking" ELSE epoch
                /\ UNCHANGED calls
    /\ UNCHANGED <<regVars, store>>

\* mutant: the Collection that insert replaces is kept alive
put_link_insert_LeakReplaced(t) ==
    /\ pc[t] = "write" /\ op[t] = "put_link" /\ t \in writers
    /\ LET a == Unwrap(ctx[t])
       IN  /\ actors' = MapInsert(actors, a, collection[t])
           /\ dropped' = dropped
           /\ active' = active \cup {a}
           /\ everLinked' = everLinked \cup {a}
    /\ Finish(t, OkBool(TRUE), calls[t])
    /\ Release(t)
    /\ UNCHANGED <<store, nextId, epoch>>

\* put_link, lines 60-61: insert under the write guard, return Ok(true)
put_link_insert(t) ==
    /\ pc[t] = "write" /\ op[t] = "put_link" /\ t \in writers
    /\ LET a == Unwrap(ctx[t])
       IN  /\ actors' = MapInsert(actors, a, collection[t])
           /\ dropped' = DropAll(actors \ actors')
           /\ active' = active \cup {a}
           /\ everLinked' = everLinked \cup {a}
    /\ Finish(t, OkBool(TRUE), calls[t])
    /\ Release(t)
    /\ UNCHANGED <<store, nextId, epoch>>

\* delete_link, line 67: request of the write guard
delete_link(t, a) ==
    /\ Free(t)
    /\ Begin(t, "delete_link", Some(a), "", NoValues)
    /\ pc' = [pc EXCEPT ![t] = "write"]
    /\ AcquireWrite(t)
    /\ UNCHANGED <<regVars, store, nextId, collection, calls, epoch>>

\* delete_link, lines 68-72: remove and drop the entry
delete_link_remove(t) ==
    /\ pc[t] = "write" /\ op[t] = "delete_link" /\ t \in writers
    /\ LET a == Unwrap(ctx[t])
       IN  /\ actors' = MapRemove(actors, a)
           /\ dropped' = DropAll(actors \ actors')
           /\ active' = active \ {a}
    /\ Finish(t, OkUnit, calls[t])
    /\ Release(t)
    /\ UNCHANGED <<store, nextId, everLinked, epoch>>

\* shutdown, line 76: request of the write guard
shutdown(t) ==
    /\ Free(t)
    /\ Begin(t, "shutdown", None, "", NoValues)
    /\ pc' = [pc EXCEPT ![t] = "write"]
    /\ AcquireWrite(t)
    /\ UNCHANGED <<regVars, store, nextId, collection, calls, epoch>>

\* shutdown, lines 78-81: drain the registry, drop every Collection
shutdown_drain(t) ==
    /\ pc[t] = "write" /\ op[t] = "shutdown" /\ t \in writers
    /\ actors' = MapDrain(actors)
    /\ dropped' = DropAll(actors \ actors')
    /\ active' = {}
    /\ epoch' = "shutdown"
    /\ Finish(t, OkUnit, calls[t])
    /\ Release(t)
    /\ UNCHANGED <<store, nextId, everLinked>>

(* ---------------------------------------------------------------------- *)
(* KeyValue: contains, del, get                                            *)
(* ---------------------------------------------------------------------- *)
\* mutant: every operation fetches the document
Primitive_AlwaysGet(o) == "get"
\* the store primitive each supported operation calls
Primitive(o) ==
    IF o = "get" THEN "get" ELSE IF o = "contains" THEN "exists" ELSE "remove"

\* actor_id(ctx)? and self.actors.read().await, common to the three handlers
Request(t, o, c, k) ==
    /\ Free(t)
    /\ LET aid == actor_id(c)
       IN  IF ~aid.ok
           THEN /\ Immediate(t, o, c, k, NoValues, aid.err)
                /\ UNCHANGED lockVars
           ELSE /\ Begin(t, o, c, k, NoValues)
                /\ pc' = [pc EXCEPT ![t] = "read"]
                /\ AcquireRead(t)
                /\ UNCHANGED <<collection, calls>>
    /\ UNCHANGED <<regVars, store, nextId, epoch>>

\* async fn contains(&self, ctx, arg), lines 112-113
contains(t, c, k) == Request(t, "contains", c, k)

\* async fn del(&self, ctx, arg), lines 127-128
del(t, c, k) == Request(t, "del", c, k)

\* async fn get(&self, ctx, arg), lines 148-149
get(t, c, k) == Request(t, "get", c, k)

\* mutant: the read guard is dropped once the handle is resolved, before the
\* store call
lookup_GuardDroppedBeforeCall(t) ==
    /\ pc[t] = "read" /\ op[t] \in StoreOps /\ t \in readers
    /\ LET a == Unwrap(ctx[t])
           found == MapGet(actors, a)
       IN  IF ~IsSome(found)
           THEN /\ Finish(t, NotLinked(a), calls[t])
                /\ Release(t)
           ELSE /\ collection' = [collection EXCEPT ![t] = Unwrap(found)]
                /\ calls' = [calls EXCEPT ![t] =
                               Append(@, StoreCall(Primitive(op[t]), arg[t], Unwrap(found)))]
                /\ pc' = [pc EXCEPT ![t] = "call"]
                /\ last' = NoReturn
                /\ Release(t)
                /\ UNCHANGED <<op, ctx, arg, values, started>>
    /\ UNCHANGED <<regVars, store, nextId, epoch>>

\* rd.get(actor_id).ok_or_else(..)?, then the store call is issued
lookup(t) ==
    /\ pc[t] = "read" /\ op[t] \in StoreOps /\ t \in readers
    /\ LET a == Unwrap(ctx[t])
           found == MapGet(actors, a)
       IN  IF ~IsSome(found)
           THEN /\ Finish(t, NotLinked(a), calls[t])
                /\ Release(t)
           ELSE /\ collection' = [collection EXCEPT ![t] = Unwrap(found)]
                /\ calls' = [calls EXCEPT ![t] =
                               Append(@, StoreCall(Primitive(op[t]), arg[t], Unwrap(found)))]
                /\ pc' = [pc EXCEPT ![t] = "call"]
                /\ last' = NoReturn
                /\ UNCHANGED <<op, ctx, arg, values, started, lockVars>>
    /\ UNCHANGED <<regVars, store, nextId, epoch>>

\* mutant: a call that succeeded is reported as true, as del does
contains_response_AlwaysTrue(r) == IF r.ok THEN OkBool(1 > 0) ELSE to_rpc_err(r.err)
\* contains, lines 117-120
contains_response(r) == IF r.ok THEN OkBool(r.exists) ELSE to_rpc_err(r.err)

\* mutant: a remove that found no document is reported as a success
del_response_NotFoundIsOk(r) ==
    IF r.ok \/ r.err = "DocumentNotFound" THEN OkBool(1 > 0) ELSE to_rpc_err(r.err)
\* del, lines 132-135: Ok(r) => Ok(1 > 0)
del_response(r) == IF r.ok THEN OkBool(1 > 0) ELSE to_rpc_err(r.err)

\* get, lines 153-169.  The arm at line 162 is read as the pattern of the
\* CouchbaseError::DocumentNotFound variant imported at line 9; content() is
\* unwrapped at line 157.
get_response(r) ==
    IF r.ok
    THEN LET c == content(r.doc)
         IN  IF c.ok THEN OkGetResponse(TRUE, c.value) ELSE Panicked(<<c.err>>)
    ELSE IF r.err = "DocumentNotFound" THEN OkGetResponse(FALSE, DefaultValue)
    ELSE to_rpc_err(r.err)

\* block_on(collection.exists(..)) returns; the read guard is dropped
contains_return(t) ==
    /\ pc[t] = "call" /\ op[t] = "contains"
    /\ \E r \in StoreOutcomes(store, collection[t], calls[t][1]) :
          /\ store' = StoreAfter(store, collection[t], calls[t][1], r)
          /\ Finish(t, contains_response(r), calls[t])
    /\ Release(t)
    /\ UNCHANGED <<regVars, nextId, epoch>>

\* block_on(collection.remove(..)) returns; the read guard is dropped
del_return(t) ==
    /\ pc[t] = "call" /\ op[t] = "del"
    /\ \E r \in StoreOutcomes(store, collection[t], calls[t][1]) :
          /\ store' = StoreAfter(store, collection[t], calls[t][1], r)
          /\ Finish(t, del_response(r), calls[t])
    /\ Release(t)
    /\ UNCHANGED <<regVars, nextId, epoch>>

\* mutant: a get that the store fails evicts the entry of the caller
get_return_EvictOnError(t) ==
    /\ pc[t] = "call" /\ op[t] = "get"
    /\ \E r \in StoreOutcomes(store, collection[t], calls[t][1]) :
          /\ store' = StoreAfter(store, collection[t], calls[t][1], r)
          /\ Finish(t, get_response(r), calls[t])
          /\ actors' = IF r.ok \/ r.err = "DocumentNotFound" THEN actors
                        ELSE MapRemove(actors, Unwrap(ctx[t]))
    /\ Release(t)
    /\ UNCHANGED <<dropped, active, everLinked, nextId, epoch>>

\* block_on(collection.get(..)) returns; the read guard is dropped
get_return(t) ==
    /\ pc[t] = "call" /\ op[t] = "get"
    /\ \E r \in StoreOutcomes(store, collection[t], calls[t][1]) :
          /\ store' = StoreAfter(store, collection[t], calls[t][1], r)
          /\ Finish(t, get_response(r), calls[t])
    /\ Release(t)
    /\ UNCHANGED <<regVars, nextId, epoch>>

\* mutant: list_clear and set_clear delegate to the removal of the key
unsupported_ClearRemoves(t, o, c, k) ==
    /\ Free(t)
    /\ IF o \in {"list_clear", "set_clear"}
       THEN /\ Immediate(t, o, c, k, NoValues, OkBool(TRUE))
            /\ store' = [store EXCEPT ![DEFAULT_BUCKET][k] = Absent]
       ELSE /\ Immediate(t, o, c, k, NoValues, NotImplemented)
            /\ UNCHANGED store
    /\ UNCHANGED <<regVars, lockVars, nextId, epoch>>

\* increment, list_*, set, set_*: Err(RpcError::NotImplemented)
unsupported(t, o, c, k) ==
    /\ Free(t)
    /\ Immediate(t, o, c, k, NoValues, NotImplemented)
    /\ UNCHANGED <<regVars, lockVars, store, nextId, epoch>>

Next ==
    \E t \in Tasks :
        \/ \E ld \in LinkDefs : put_link(t, ld[1], ld[2])
        \/ put_link_insert(t)
        \/ \E a \in Actors : delete_link(t, a)
        \/ delete_link_remove(t)
        \/ shutdown(t)
        \/ shutdown_drain(t)
        \/ \E c \in Contexts, k \in Keys : contains(t, c, k)
        \/ \E c \in Contexts, k \in Keys : del(t, c, k)
        \/ \E c \in Contexts, k \in Keys : get(t, c, k)
        \/ lookup(t)
        \/ contains_return(t)
        \/ del_return(t)
        \/ get_return(t)
        \/ \E o \in UnsupportedOps, c \in UnsupportedCallers : unsupported(t, o, c, "k1")

Spec == Init /\ [][Next]_vars

\* the steps a started handler takes until it returns
Continue(t) ==
    \/ put_link_insert(t)
    \/ delete_link_remove(t)
    \/ shutdown_drain(t)
    \/ lookup(t)
    \/ contains_return(t)
    \/ del_return(t)
    \/ get_return(t)

\* The runtime resumes every task that can run, and every store call
\* returns: a handler step that stays enabled is eventually taken.  (The
\* fairness of the lock itself is in Grant.)
\* The events of the fair specification: those of Next, with one key and
\* one unsupported operation (the handlers take the same lock steps for
\* every key, and the unsupported operations take none).
NextFair ==
    \E t \in Tasks :
        \/ \E ld \in LinkDefs : put_link(t, ld[1], ld[2])
        \/ \E a \in Actors : delete_link(t, a)
        \/ shutdown(t)
        \/ \E c \in Contexts : contains(t, c, "k1")
        \/ \E c \in Contexts : del(t, c, "k1")
        \/ \E c \in Contexts : get(t, c, "k1")
        \/ unsupported(t, "increment", None, "k1")
        \/ Continue(t)

FairSpec == Init /\ [][NextFair]_vars /\ \A t \in Tasks : WF_vars(Continue(t))

(* ---------------------------------------------------------------------- *)
(* load_config on its own: the link values are drawn from ConfigInputs     *)
(* ---------------------------------------------------------------------- *)
\* Ok(config) of load_config
OkConfig(config) ==
    [tag |-> "Ok", kind |-> "Config",
     val |-> <<config.url, config.bucket, config.collection, config.username,
               config.password>>]

\* JSON objects with the five fields, and objects that set the bucket only
FullA == JsonObj(Some("couchbase://a"), Some("A"), Some("cA"), Some("uA"), Some("pA"))
FullB == JsonObj(Some("couchbase://b"), Some("B"), Some("cB"), Some("uB"), Some("pB"))
BucketOnlyA == JsonObj(None, Some("A"), None, None, None)
BucketOnlyB == JsonObj(None, Some("B"), None, None, None)

\* the config_b64 values: absent, not base64, base64 of malformed JSON, of an
\* object that lacks fields, of a complete object
B64Inputs ==
    {None, Some(Blob(FALSE, Json(TRUE, FullA))), Some(Blob(TRUE, Json(FALSE, EmptyObj))),
     Some(Blob(TRUE, Json(TRUE, BucketOnlyA))), Some(Blob(TRUE, Json(TRUE, FullA)))}

\* the config_json values
JsonInputs ==
    {None, Some(Json(FALSE, EmptyObj)), Some(Json(TRUE, BucketOnlyB)),
     Some(Json(TRUE, FullB))}

\* ld.values of the link definitions given to load_config
ConfigInputs ==
    { LinkValues(b, j, u, bk, c, un, pw) :
        b \in B64Inputs, j \in JsonInputs, u \in {None, Some("couchbase://c")},
        bk \in {None, Some("C")}, c \in {None, Some("cC")},
        un \in {None, Some("uC")}, pw \in {None, Some("pC")} }

InitConfig ==
    /\ actors = {}
    /\ readers = {}
    /\ writers = {}
    /\ queue = <<>>
    /\ store \in InitStores
    /\ nextId = 1
    /\ dropped = {}
    /\ pc = [t \in Tasks |-> "idle"]
    /\ op = [t \in Tasks |-> "none"]
    /\ ctx = [t \in Tasks |-> None]
    /\ arg = [t \in Tasks |-> ""]
    /\ \E v \in ConfigInputs : values = [t \in Tasks |-> IF t = 1 THEN v ELSE NoValues]
    /\ collection = [t \in Tasks |-> NoCollection]
    /\ calls = [t \in Tasks |-> <<>>]
    /\ started = 0
    /\ last = NoReturn
    /\ active = {}
    /\ everLinked = {}
    /\ epoch = "running"

\* put_link, line 56: load_config(ld) is applied to the link values of task t
put_link_load_config(t) ==
    /\ Free(t)
    /\ started = 0
    /\ LET cfg == load_config(values[t])
       IN  last' = Returned("load_config", None, "", values[t], NoCollection, <<>>,
                            IF cfg.ok THEN OkConfig(cfg.config) ELSE cfg.err)
    /\ started' = started + 1
    /\ UNCHANGED <<regVars, lockVars, store, nextId, pc, op, ctx, arg, values,
                   collection, calls, epoch>>

NextConfig == \E t \in Tasks : put_link_load_config(t)

SpecConfig == InitConfig /\ [][NextConfig]_vars

(* ---------------------------------------------------------------------- *)
(* Properties                                                              *)
(* ---------------------------------------------------------------------- *)
\* the identity of a returned request (it has one)
Caller(r) == Unwrap(r.ctx)

\* a get/contains/del request with an identity has just returned
StoreReturn == last.op \in StoreOps /\ IsSome(last.ctx)

\* C1: the registry holds at most one handle per identity, and an identity
\* is in the registry exactly when its link is active (a put_link for it
\* succeeded and no delete_link for it and no shutdown completed since).
C1_RegistryMatchesLinks ==
    /\ \A a \in Actors : Cardinality(MapAt(actors, a)) <= 1
    /\ MapKeys(actors) = active

\* a1 was linked twice (its first handle was replaced) and is still active
C1_Witness ==
    /\ actors = {<<"a1", Collection(2, DEFAULT_BUCKET)>>}
    /\ 1 \in dropped
    /\ active = {"a1"}

\* C2 as stated: every key-value request (unsupported operations included)
\* made with a never-registered identity fails with NotLinked.
C2_Original ==
    (/\ last.op \in StoreOps \cup UnsupportedOps
     /\ IsSome(last.ctx)
     /\ Caller(last) \notin everLinked)
    => last.result = NotLinked(Caller(last))

\* C2 amended: for a never-registered identity every get, contains and del
\* fails with NotLinked and issues no store call (no such request is ever
\* inside a store call); an unsupported operation fails with NotImplemented.
C2_NeverLinked ==
    /\ (StoreReturn /\ Caller(last) \notin everLinked)
          => (last.result = NotLinked(Caller(last)) /\ last.calls = <<>>)
    /\ \A t \in Tasks : pc[t] = "call" => Unwrap(ctx[t]) \in everLinked
    /\ (last.op \in UnsupportedOps /\ IsSome(last.ctx) /\ Caller(last) \notin everLinked)
          => last.result = NotImplemented

\* a request of the never-registered a2 fails while a1 is linked
C2_Witness ==
    /\ StoreReturn
    /\ last.ctx = Some("a2")
    /\ "a2" \notin everLinked
    /\ last.result = NotLinked("a2")
    /\ "a1" \in MapKeys(actors)

\* C3: a get/contains/del for an identity whose link is active resolves a
\* handle and reaches the store; for an identity whose link is not active
\* (never linked, or unlinked since) it fails with NotLinked.
C3_LookupFollowsLink ==
    /\ \A t \in Tasks :
          pc[t] = "call" => (Unwrap(ctx[t]) \in active /\ Len(calls[t]) = 1)
    /\ (StoreReturn /\ Caller(last) \in active)
          => (last.result # NotLinked(Caller(last)) /\ Len(last.calls) = 1)
    /\ (StoreReturn /\ Caller(last) \notin active)
          => (last.result = NotLinked(Caller(last)) /\ last.calls = <<>>)

\* a1 was linked, delete_link(a1) completed (no shutdown did), and a request
\* of a1 fails with NotLinked
C3_Witness ==
    /\ StoreReturn
    /\ last.result = NotLinked("a1")
    /\ "a1" \in everLinked
    /\ epoch = "running"

\* C4 as stated: once shutdown has completed the registry is empty and no
\* request resolves a handle, also when a put_link ran concurrently with the
\* shutdown (put_link events that arrive after the shutdown are left out:
\* epoch is "shutdown" only until one arrives).
C4_Original ==
    epoch = "shutdown" => (actors = {} /\ \A t \in Tasks : pc[t] # "call")

\* what every step satisfies, for the amended C4 below
C4_ShutdownStep ==
    /\ last'.op = "shutdown" => (actors' = {} /\ {e[2].id : e \in actors} \subseteq dropped')
    /\ \A a \in Actors :
          (a \notin MapKeys(actors) /\ a \in MapKeys(actors'))
             => (last'.op = "put_link" /\ last'.ctx = Some(a) /\ last'.result = OkBool(TRUE))
    /\ (last'.op \in StoreOps /\ IsSome(last'.ctx) /\ Caller(last') \notin MapKeys(actors))
          => last'.result = NotLinked(Caller(last'))
\* C4 amended: the step that completes shutdown leaves the registry empty
\* and has dropped every handle it held; afterwards an identity enters the
\* registry only by a put_link that completes its insert, and a request of
\* an identity that is not in the registry fails with NotLinked.
C4_ShutdownEmpties == [][C4_ShutdownStep]_vars

\* a shutdown has just completed and released a handle while a put_link was
\* waiting for the registry
C4_Witness ==
    /\ last.op = "shutdown"
    /\ dropped # {}
    /\ \E t \in Tasks : pc[t] = "write" /\ op[t] = "put_link"

\* the link definition carries a configuration that cannot be loaded
Malformed(j) == ~j.wf \/ \E f \in ConfigFields : ~IsSome(j.obj[f])
BadConfig(v) ==
    \/ IsSome(v.config_b64)
         /\ (~Unwrap(v.config_b64).b64 \/ Malformed(Unwrap(v.config_b64).json))
    \/ IsSome(v.config_json) /\ Malformed(Unwrap(v.config_json))

\* what every step satisfies, for C5 below
C5_FailedStep ==
    (last'.op = "put_link" /\ last'.result.tag # "Ok")
       => /\ actors' = actors
          /\ dropped' = dropped
          /\ nextId' = nextId
          /\ active' = active
          /\ \A t \in Tasks : collection'[t] = collection[t]
\* C5: a put_link that fails changes nothing: no entry of the registry is
\* inserted, replaced or removed, no handle is created or dropped, and the
\* set of active links is as before.
C5_FailedPutLinkKeepsRegistry == [][C5_FailedStep]_vars

\* a put_link of the linked a1 with an undecodable config_b64 has failed
C5_Witness ==
    /\ last.op = "put_link"
    /\ last.ctx = Some("a1")
    /\ last.result = RpcErr("ProviderInit", <<"invalid config_base64 encoding">>)
    /\ "a1" \in MapKeys(actors)

\* C6: put_link returns Ok(true) unless the configuration does not load; then
\* it returns a ProviderInit error; it never panics.
C6_PutLinkResult ==
    last.op = "put_link"
       => /\ last.result.tag # "Panic"
          /\ IF BadConfig(last.values)
             THEN last.result.tag = "Err" /\ last.result.kind = "ProviderInit"
             ELSE last.result = OkBool(TRUE)

\* a put_link with malformed config_json has been refused, after another
\* put_link was accepted
C6_Witness ==
    /\ last.op = "put_link"
    /\ last.result = RpcErr("ProviderInit", <<"invalid json config: ", "syntax">>)
    /\ actors # {}

\* C7: the write guard is held by at most one task, a put_link, delete_link
\* or shutdown, and by none while any task holds a read guard; read guards
\* are held by get/contains/del tasks only, several at a time; a task inside
\* a store call holds its read guard.
C7_ReaderWriterExclusion ==
    /\ Cardinality(writers) <= 1
    /\ writers # {} => readers = {}
    /\ \A t \in writers : pc[t] = "write" /\ op[t] \in LifecycleOps
    /\ \A t \in readers : pc[t] \in {"read", "call"} /\ op[t] \in StoreOps
    /\ \A t \in Tasks : pc[t] = "call" => t \in readers

\* two requests hold read guards while a writer waits
C7_Witness ==
    /\ Cardinality(readers) >= 2
    /\ queue # <<>>
    /\ IsWriter(Head(queue))

\* task t waits in the queue of the lock
Waiting(t) == \E i \in 1..Len(queue) : queue[i] = t
\* a writer waits in the queue ahead of task t
WriterAhead(t) ==
    \E i, j \in 1..Len(queue) : i < j /\ queue[j] = t /\ IsWriter(queue[i])

\* C8 as stated: while a put_link or delete_link for X holds the registry, a
\* lookup of X is excluded but a lookup of another identity is not blocked.
C8_Original ==
    \A w \in writers : \A t \in Tasks :
        (op[w] \in {"put_link", "delete_link"} /\ pc[t] = "read")
           => IF ctx[t] = ctx[w] THEN t \notin readers ELSE t \in readers

\* C8 amended: lookups do not exclude each other, a lookup waits only while
\* a put_link, delete_link or shutdown holds the registry or waits ahead of
\* it; a put_link or delete_link that holds the registry excludes the
\* lookups of every identity, its own and all others.
C8_OneLockForAllIdentities ==
    /\ \A t \in Tasks :
          (pc[t] = "read" /\ t \notin readers)
             => (Waiting(t) /\ (writers # {} \/ WriterAhead(t)))
    /\ \A w \in Tasks :
          (pc[w] = "write" /\ w \in writers)
             => \A t \in Tasks : pc[t] \in {"read", "call"} => (pc[t] = "read" /\ Waiting(t))

\* a delete_link or put_link of one identity holds the registry and a lookup
\* of the other identity waits
C8_Witness ==
    \E w \in writers : \E t \in Tasks :
        /\ op[w] \in {"put_link", "delete_link"}
        /\ pc[t] = "read" /\ ctx[t] # ctx[w]
        /\ Waiting(t)

\* C9: a get that reached the store returns {exists: true, value} with the
\* stored value when the key exists, {exists: false, default} when it does
\* not, and otherwise an operation failure with the store's error text.
C9_GetResult ==
    (last.op = "get" /\ last.calls # <<>>)
       => LET doc == store[last.collection.bucket][last.arg]
          IN  \/ doc # Absent /\ last.result = OkGetResponse(TRUE, doc.text)
              \/ doc = Absent /\ last.result = OkGetResponse(FALSE, DefaultValue)
              \/ \E e \in StoreErrors : last.result = to_rpc_err(e)

\* what every step satisfies, for C10 below
C10_UnsupportedStep ==
    last'.op \in UnsupportedOps
       => /\ last'.result = NotImplemented
          /\ last'.calls = <<>>
          /\ actors' = actors
          /\ store' = store
          /\ dropped' = dropped
          /\ calls' = calls
          /\ <<readers', writers', queue'>> = <<readers, writers, queue>>
\* C10: an unsupported operation returns NotImplemented, issues no store
\* call, and changes neither the registry, the store, the lock nor any
\* handle, for every caller.
C10_UnsupportedIsInert == [][C10_UnsupportedStep]_vars

\* set_query has been refused for the linked a1
C10_Witness ==
    /\ last.op = "set_query"
    /\ last.ctx = Some("a1")
    /\ last.result = NotImplemented
    /\ "a1" \in MapKeys(actors)

\* what every step satisfies, for C11 below
C11_DelStep ==
    (last'.op = "del" /\ last'.calls # <<>>)
       => LET b == last'.collection.bucket
              k == last'.arg
          IN  \/ /\ last'.result = OkBool(TRUE)
                 /\ store[b][k] # Absent
                 /\ store' = [store EXCEPT ![b][k] = Absent]
              \/ /\ \E e \in StoreErrors \cup {"DocumentNotFound"} :
                        last'.result = to_rpc_err(e)
                 /\ store' = store
C12_ContainsStep ==
    (last'.op = "contains" /\ last'.calls # <<>>)
       => /\ store' = store
          /\ \/ last'.result = OkBool(store[last'.collection.bucket][last'.arg] # Absent)
             \/ \E e \in StoreErrors : last'.result = to_rpc_err(e)
\* C12: contains for a linked identity returns true exactly when the key
\* is in the store at the time of the call and false otherwise, a store
\* error is returned as an operation failure, and the call leaves the store
\* unchanged.
C12_ContainsReportsPresence == [][C12_ContainsStep]_vars

\* contains has returned false for a key that was stored and then removed
C12_Witness ==
    /\ last.op = "contains"
    /\ last.collection.bucket = DEFAULT_BUCKET
    /\ last.arg = "k1"
    /\ last.result = OkBool(FALSE)

\* the link key that patches a Config field
KeyOf(f) == IF f = "url" THEN COUCHBASE_URL_KEY ELSE f

\* the Config a load_config result carries
Resolved(r) ==
    [url |-> r.val[1], bucket |-> r.val[2], collection |-> r.val[3],
     username |-> r.val[4], password |-> r.val[5]]

\* the value the precedence gives field f for the link values v
ByPrecedence(v, f) ==
    IF IsSome(v[KeyOf(f)]) THEN Unwrap(v[KeyOf(f)])
    ELSE IF IsSome(v.config_json) THEN Unwrap(Unwrap(v.config_json).obj[f])
    ELSE IF IsSome(v.config_b64) THEN Unwrap(Unwrap(v.config_b64).json.obj[f])
    ELSE ConfigNew[f]

\* C13: whenever load_config resolves a configuration, every field has the
\* value of its explicit key when that key is present, otherwise the value
\* config_json gives it when config_json is present, otherwise the value
\* config_b64 gives it when config_b64 is present, otherwise the built-in
\* default.
C13_ConfigPrecedence ==
    (last.op = "load_config" /\ last.result.tag = "Ok")
       => \A f \in ConfigFields : Resolved(last.result)[f] = ByPrecedence(last.values, f)

\* bucket A in config_b64, bucket B in config_json and the explicit bucket C
\* have resolved to C, the other fields to those of config_json
C13_Witness ==
    /\ last.op = "load_config"
    /\ last.values = LinkValues(Some(Blob(TRUE, Json(TRUE, FullA))), Some(Json(TRUE, FullB)),
                                None, Some("C"), None, None, None)
    /\ last.result = OkConfig([url |-> "couchbase://b", bucket |-> "C", collection |-> "cB",
                               username |-> "uB", password |-> "pB"])

\* what every step satisfies, for C14 below
C14_DeleteLinkStep ==
    last'.op = "delete_link"
       => LET a == Caller(last')
          IN  /\ last'.result = OkUnit
              /\ actors' = {e \in actors : e[1] # a}
              /\ dropped' = dropped \cup {e[2].id : e \in {x \in actors : x[1] = a}}
              /\ a \notin MapKeys(actors) => actors' = actors /\ dropped' = dropped
              /\ store' = store
\* C14: delete_link returns without error; for an identity that is not
\* registered it changes no entry and releases no handle; for a registered
\* identity it removes and releases that identity's entry and leaves every
\* other entry as it was.
C14_DeleteLinkFrame == [][C14_DeleteLinkStep]_vars

\* delete_link has returned for a2, never registered, while a1 is registered
C14_Witness ==
    /\ last.op = "delete_link"
    /\ last.ctx = Some("a2")
    /\ "a2" \notin everLinked
    /\ "a1" \in MapKeys(actors)
    /\ dropped = {}

\* ids of the Collections held by the entries of a registry
Handles(m) == {e[2].id : e \in m}

\* ids of the Collections created so far
Created(n) == 1 .. (n - 1)

\* what every step satisfies, for C15 below
C15_ReleaseStep ==
    /\ dropped \subseteq dropped'
    /\ dropped' \ dropped = Handles(actors) \ Handles(actors')
    /\ actors' # actors => last'.op \in LifecycleOps
    /\ Handles(actors') \cap dropped' = {}
    /\ (\A t \in Tasks : pc'[t] = "idle")
          => Created(nextId') \ dropped' = Handles(actors')
\* C15: a handle is released in the step in which it leaves the registry
\* (the completion of delete_link, of shutdown, or of the put_link that
\* replaces it) and in no other step; no handle in the registry is released;
\* and whenever no handler is in progress the handles created and not yet
\* released are exactly those in the registry.
C15_ReleasedWhenLeaving == [][C15_ReleaseStep]_vars

\* a second put_link for a1 has replaced and released its first handle, and
\* no handler is in progress
C15_Witness ==
    /\ last.op = "put_link"
    /\ last.result = OkBool(TRUE)
    /\ \A t \in Tasks : pc[t] = "idle"
    /\ nextId = 3
    /\ dropped = {1}
    /\ Handles(actors) = {2}

\* C16: while the store call of a get, contains or del is in flight, the
\* handler holds its read guard, no writer holds the registry, and the
\* handle it resolved is still registered for its identity and has not been
\* released: a concurrent delete_link, shutdown or replacing put_link waits
\* until the call has returned.
C16_NoReleaseDuringCall ==
    \A t \in Tasks :
        pc[t] = "call"
           => /\ t \in readers
              /\ writers = {}
              /\ collection[t].id \notin dropped
              /\ <<Unwrap(ctx[t]), collection[t]>> \in actors

\* a store call for a1 is in flight while a delete_link for a1 waits for the
\* registry
C16_Witness ==
    \E t, u \in Tasks :
        /\ pc[t] = "call"
        /\ ctx[t] = Some("a1")
        /\ op[u] = "delete_link"
        /\ ctx[u] = Some("a1")
        /\ Waiting(u)

\* C17: no handle is in the registry under two identities, and the store
\* call of a request for identity X is issued through the handle that the
\* registry holds for X, both while the call is in flight and when it
\* returns.
C17_OneIdentityPerHandle ==
    /\ \A e1, e2 \in actors : e1[2].id = e2[2].id => e1[1] = e2[1]
    /\ \A t \in Tasks :
          pc[t] = "call"
             => /\ Len(calls[t]) = 1
                /\ MapGet(actors, Unwrap(ctx[t])) = Some(collection[t])
                /\ calls[t][1].id = collection[t].id
    /\ (StoreReturn /\ last.calls # <<>>)
          => /\ MapGet(actors, Caller(last)) = Some(last.collection)
             /\ last.calls[1].id = last.collection.id

\* a1 and a2 are registered with different handles and a store call for a2
\* is in flight through the handle of a2
C17_Witness ==
    /\ MapKeys(actors) = {"a1", "a2"}
    /\ Cardinality(Handles(actors)) = 2
    /\ \E t \in Tasks :
          /\ pc[t] = "call"
          /\ ctx[t] = Some("a2")
          /\ calls[t][1].id \in Handles(MapAt(actors, "a2"))
          /\ calls[t][1].id \notin Handles(MapAt(actors, "a1"))

\* the one call a request that reached the store has issued
MatchingCall(r) ==
    [prim |-> CASE r.op = "get" -> "get"
                [] r.op = "contains" -> "exists"
                [] r.op = "del" -> "remove",
     key |-> r.arg,
     id |-> r.collection.id]

\* C18: a get, contains or del that returns has issued no store call when
\* it failed before the lookup succeeded (NotLinked, no actor), and
\* otherwise exactly one: the fetch for get, the existence check for
\* contains, the remove for del, with the key of the request and through the
\* resolved handle.  A handler never has more than one call in flight.
C18_OneMatchingStoreCall ==
    /\ \A t \in Tasks : Len(calls[t]) = IF pc[t] = "call" THEN 1 ELSE 0
    /\ last.op \in StoreOps
          => IF last.result \in {NotLinked(a) : a \in Actors} \cup {NoActorInRequest}
             THEN last.calls = <<>>
             ELSE last.calls = <<MatchingCall(last)>>

\* del of k2 has succeeded through one remove of k2
C18_Witness ==
    /\ last.op = "del"
    /\ last.result = OkBool(TRUE)
    /\ last.calls = <<[prim |-> "remove", key |-> "k2", id |-> last.collection.id]>>
    /\ store[last.collection.bucket]["k2"] = Absent

\* what every step satisfies, for C19 below
C19_RequestStep ==
    /\ last'.op \notin LifecycleOps => actors' = actors /\ dropped' = dropped
    /\ last'.op \in StoreOps \cup UnsupportedOps
          => \A t \in Tasks : pc'[t] = "idle" => t \notin readers' \cup writers'
\* C19: no step of a get, contains, del or unsupported operation, whether
\* it succeeds, fails or panics, changes the registry or releases a handle:
\* the registry changes only in the completion of put_link, delete_link or
\* shutdown; and a request that has returned holds no guard of the registry,
\* so later requests are served.
C19_RequestsKeepRegistry == [][C19_RequestStep]_vars

\* after a del of k1 for the linked a1, a later get of k1 for a1 has been
\* served through the same registered handle
C19_Witness ==
    /\ last.op = "get"
    /\ last.ctx = Some("a1")
    /\ last.arg = "k1"
    /\ last.result = OkGetResponse(FALSE, DefaultValue)
    /\ store[DEFAULT_BUCKET]["k1"] = Absent
    /\ actors = {<<"a1", last.collection>>}

\* what every step satisfies, for C20 below: a task asks for the registry
\* only in the step that starts its handler
C20_AcquireStep ==
    \A t \in Tasks :
        ((t \in readers' \cup writers' \/ \E i \in 1..Len(queue') : queue'[i] = t)
           /\ ~(t \in readers \cup writers \/ Waiting(t)))
          => pc[t] = "idle"
\* a task is in at most one place of the lock: once in the queue, or holding
\* one guard; a task that holds or awaits the registry runs a handler
C20_LockDiscipline ==
    /\ \A i, j \in 1..Len(queue) : queue[i] = queue[j] => i = j
    /\ \A t \in Tasks :
          /\ Waiting(t) => t \notin readers \cup writers
          /\ ~(t \in readers /\ t \in writers)
          /\ (Waiting(t) \/ t \in readers \cup writers) <=> pc[t] # "idle"
\* C20: every handler acquires the registry at most once and never while it
\* holds it, and, the lock being fair and every store call returning, every
\* handler that starts eventually returns.
C20_NoDeadlock ==
    /\ []C20_LockDiscipline
    /\ [][C20_AcquireStep]_vars
    /\ \A t \in Tasks : (pc[t] # "idle") ~> (pc[t] = "idle")

\* three handlers are in progress: a request holds its read guard, a writer
\* waits for it, and a second request waits behind the writer
C20_Witness ==
    /\ \E t \in readers : pc[t] = "read"
    /\ Len(queue) = 2
    /\ IsWriter(queue[1])
    /\ ~IsWriter(queue[2])

====
